---- MODULE Spec2Model ----
(***************************************************************************)
(* The terminal grid of ansi2png (src/main.rs): the vte::Perform handlers  *)
(* print, execute and csi_dispatch of Grid, the construction of the grid   *)
(* and the end-of-stream trimming loop of render_text_to_png.              *)
(*                                                                         *)
(* Coordinates are 0-indexed as in the source; TLA+ sequences are          *)
(* 1-indexed, so cells[y][x] of the source is g.cells[y + 1][x + 1] here.  *)
(* A Rust panic (index out of bounds, usize underflow) is modelled by the  *)
(* flag ok = FALSE of the grid record, which stops the program.            *)
(***************************************************************************)
EXTENDS Integers, Sequences, FiniteSets

VARIABLES cells, width, height, cursor_x, cursor_y, fg, bg, theme,
          phase, nev, last

vars == <<cells, width, height, cursor_x, cursor_y, fg, bg, theme,
          phase, nev, last>>

(* ------------------------------ bounds --------------------------------- *)

\* Longest event stream explored (events fed to the grid before the end).
MaxEvents == 3

\* Grid widths explored: 1..MaxWidth, and 10 (a width above the tab stop).
MaxWidth == 2

Widths == (1 .. MaxWidth) \cup {10}

\* Characters handed to print: a space, a narrow letter, a double-width
\* character and a zero-width (combining) character.
PrintChars == {" ", "a", "wide", "zw"}

\* Control bytes handed to execute: LF, CR, TAB, BS and BEL.
ExecBytes == {10, 13, 9, 8, 7}

\* Parameter lists of the CSI sequences explored, by final byte.
SgrParams == {<<>>, <<0>>, <<31>>, <<97>>, <<1>>, <<31, 0>>, <<0, 31>>}

ModeParams == {<<>>, <<0>>, <<1>>, <<2>>, <<3>>}

MoveParams == {<<>>, <<0>>, <<2>>}

PosParams == {<<>>, <<3>>, <<0, 0>>, <<1, 2>>, <<2, 1>>, <<2, 12>>, <<5, 10>>}

(* ------------------------------- Theme --------------------------------- *)

Themes == {"Light", "Dark"}

bg_color(t) == IF t = "Light" THEN <<255, 255, 255>> ELSE <<20, 20, 20>>

default_fg(t) == IF t = "Light" THEN <<0, 0, 0>> ELSE <<255, 255, 255>>

get_ansi_color(t, code) ==
    IF t = "Light"
    THEN CASE code = 30 -> <<0, 0, 0>>
           [] code = 31 -> <<205, 49, 49>>
           [] code = 32 -> <<13, 188, 121>>
           [] code = 33 -> <<180, 180, 0>>
           [] code = 34 -> <<36, 114, 200>>
           [] code = 35 -> <<188, 63, 188>>
           [] code = 36 -> <<17, 168, 205>>
           [] code = 37 -> <<100, 100, 100>>
           [] code = 90 -> <<102, 102, 102>>
           [] code = 91 -> <<241, 76, 76>>
           [] code = 92 -> <<35, 209, 139>>
           [] code = 93 -> <<200, 200, 0>>
           [] code = 94 -> <<59, 142, 234>>
           [] code = 95 -> <<214, 112, 214>>
           [] code = 96 -> <<41, 184, 219>>
           [] code = 97 -> <<0, 0, 0>>
           [] OTHER -> <<0, 0, 0>>
    ELSE CASE code = 30 -> <<0, 0, 0>>
           [] code = 31 -> <<205, 49, 49>>
           [] code = 32 -> <<13, 188, 121>>
           [] code = 33 -> <<229, 229, 16>>
           [] code = 34 -> <<36, 114, 200>>
           [] code = 35 -> <<188, 63, 188>>
           [] code = 36 -> <<17, 168, 205>>
           [] code = 37 -> <<229, 229, 229>>
           [] code = 90 -> <<102, 102, 102>>
           [] code = 91 -> <<241, 76, 76>>
           [] code = 92 -> <<35, 209, 139>>
           [] code = 93 -> <<245, 245, 67>>
           [] code = 94 -> <<59, 142, 234>>
           [] code = 95 -> <<214, 112, 214>>
           [] code = 96 -> <<41, 184, 219>>
           [] code = 97 -> <<255, 255, 255>>
           [] OTHER -> <<255, 255, 255>>

(* -------------------------------- Cell --------------------------------- *)

Cell(c, f, b) == [c |-> c, fg |-> f, bg |-> b]

\* vec![Cell { c: ' ', fg, bg }; width]
BlankRow(w, f, b) == [x \in 1 .. w |-> Cell(" ", f, b)]

\* The grid as one record; ok = FALSE once an operation has panicked.
Self ==
    [cells |-> cells, width |-> width, height |-> height,
     cursor_x |-> cursor_x, cursor_y |-> cursor_y,
     fg |-> fg, bg |-> bg, theme |-> theme, ok |-> TRUE]

Min(a, b) == IF a <= b THEN a ELSE b

\* usize::saturating_sub
saturating_sub(a, b) == IF a >= b THEN a - b ELSE 0

\* EnsureRow as a resize to cursor_y + 1 rows, which also truncates.
EnsureRow_Resize(g, f, b) ==
    [g EXCEPT !.cells =
        [y \in 1 .. (g.cursor_y + 1) |->
            IF y <= Len(g.cells) THEN g.cells[y] ELSE BlankRow(g.width, f, b)]]

\* while self.cells.len() <= self.cursor_y { self.cells.push(row of (f, b)) }
EnsureRow(g, f, b) ==
    IF Len(g.cells) <= g.cursor_y
    THEN [g EXCEPT !.cells =
             g.cells \o [i \in 1 .. (g.cursor_y + 1 - Len(g.cells)) |->
                            BlankRow(g.width, f, b)]]
    ELSE g

\* self.cells[y][x] = cell, panicking when y or x is out of bounds
SetCell(g, y, x, cell) ==
    IF ~g.ok THEN g
    ELSE IF y < Len(g.cells) /\ x < Len(g.cells[y + 1])
         THEN [g EXCEPT !.cells[y + 1][x + 1] = cell]
         ELSE [g EXCEPT !.ok = FALSE]

(* ---------------------------- Grid::print ------------------------------ *)

\* c.width().unwrap_or(0) of unicode_width
CharWidth(c) == CASE c = "zw" -> 0 [] c = "wide" -> 2 [] OTHER -> 1

\* PrintGrowAtHeight pushing rows of Cell::default() (white on black).
PrintGrowAtHeight_DefaultCell(g) ==
    IF g.cursor_y >= g.height
    THEN [g EXCEPT !.height = g.height + 1,
                   !.cells = Append(g.cells,
                       BlankRow(g.width, <<255, 255, 255>>, <<0, 0, 0>>))]
    ELSE g

\* if self.cursor_y >= self.height { height += 1; push a theme row }
PrintGrowAtHeight(g) ==
    IF g.cursor_y >= g.height
    THEN [g EXCEPT !.height = g.height + 1,
                   !.cells = Append(g.cells,
                       BlankRow(g.width, default_fg(g.theme), bg_color(g.theme)))]
    ELSE g

\* PrintWrap wrapping already when the character would end at the last column.
PrintWrap_Early(g, w) ==
    IF g.cursor_x + w >= g.width
    THEN PrintGrowAtHeight([g EXCEPT !.cursor_x = 0, !.cursor_y = g.cursor_y + 1])
    ELSE g

\* if self.cursor_x + w > self.width { wrap, growing by one row at height }
PrintWrap(g, w) ==
    IF g.cursor_x + w > g.width
    THEN PrintGrowAtHeight([g EXCEPT !.cursor_x = 0, !.cursor_y = g.cursor_y + 1])
    ELSE g

PrintEnsureRow_Skip(g) == g

\* while self.cells.len() <= self.cursor_y { push a theme row }
PrintEnsureRow(g) == EnsureRow(g, default_fg(g.theme), bg_color(g.theme))

\* PrintWrite storing the theme's default foreground instead of the current one.
PrintWrite_ThemeFg(g, c) ==
    SetCell(g, g.cursor_y, g.cursor_x, Cell(c, default_fg(g.theme), g.bg))

\* self.cells[cursor_y][cursor_x] = Cell { c, fg, bg }
PrintWrite(g, c) == SetCell(g, g.cursor_y, g.cursor_x, Cell(c, g.fg, g.bg))

\* PrintAdvance wrapping only once the cursor is past the last column.
PrintAdvance_Late(g, w) ==
    IF ~g.ok THEN g
    ELSE IF g.cursor_x + w > g.width
         THEN [g EXCEPT !.cursor_x = 0, !.cursor_y = g.cursor_y + 1]
         ELSE [g EXCEPT !.cursor_x = g.cursor_x + w]

\* PrintAdvance advancing by one column whatever the display width.
PrintAdvance_One(g, w) ==
    IF ~g.ok THEN g
    ELSE IF g.cursor_x + 1 >= g.width
         THEN [g EXCEPT !.cursor_x = 0, !.cursor_y = g.cursor_y + 1]
         ELSE [g EXCEPT !.cursor_x = g.cursor_x + 1]

\* cursor_x += w; if cursor_x >= width { cursor_x = 0; cursor_y += 1 }
PrintAdvance(g, w) ==
    IF ~g.ok THEN g
    ELSE IF g.cursor_x + w >= g.width
         THEN [g EXCEPT !.cursor_x = 0, !.cursor_y = g.cursor_y + 1]
         ELSE [g EXCEPT !.cursor_x = g.cursor_x + w]

\* print testing the display width only after the first growth check.
print_GrowFirst(g, c) ==
    LET w == CharWidth(c)
        g1 == PrintGrowAtHeight(g)
    IN IF w = 0 THEN g1
       ELSE PrintAdvance(PrintWrite(PrintEnsureRow(PrintWrap(g1, w)), c), w)

print(g, c) ==
    LET w == CharWidth(c) IN
    IF w = 0 THEN g
    ELSE PrintAdvance(
           PrintWrite(PrintEnsureRow(PrintWrap(PrintGrowAtHeight(g), w)), c), w)

(* --------------------------- Grid::execute ----------------------------- *)

TabWidth == 8

\* execute whose tab moves eight columns on instead of to the next tab stop.
execute_TabPlusEight(g, byte) ==
    CASE byte = 10 -> [g EXCEPT !.cursor_y = g.cursor_y + 1, !.cursor_x = 0]
      [] byte = 13 -> [g EXCEPT !.cursor_x = 0]
      [] byte = 9 ->
            LET x == g.cursor_x + TabWidth IN
            IF x >= g.width
            THEN IF g.width >= 1 THEN [g EXCEPT !.cursor_x = g.width - 1]
                                 ELSE [g EXCEPT !.ok = FALSE]
            ELSE [g EXCEPT !.cursor_x = x]
      [] byte = 8 -> IF g.cursor_x > 0 THEN [g EXCEPT !.cursor_x = g.cursor_x - 1]
                                       ELSE g
      [] OTHER -> g

execute(g, byte) ==
    CASE byte = 10 -> [g EXCEPT !.cursor_y = g.cursor_y + 1, !.cursor_x = 0]
      [] byte = 13 -> [g EXCEPT !.cursor_x = 0]
      [] byte = 9 ->
            LET x == ((g.cursor_x \div TabWidth) + 1) * TabWidth IN
            IF x >= g.width
            THEN IF g.width >= 1 THEN [g EXCEPT !.cursor_x = g.width - 1]
                                 ELSE [g EXCEPT !.ok = FALSE]
            ELSE [g EXCEPT !.cursor_x = x]
      [] byte = 8 -> IF g.cursor_x > 0 THEN [g EXCEPT !.cursor_x = g.cursor_x - 1]
                                       ELSE g
      [] OTHER -> g

(* ------------------------- Grid::csi_dispatch -------------------------- *)

\* params.iter().next().map(|p| p[0]).unwrap_or(d)
FirstParam(params, d) == IF Len(params) >= 1 THEN params[1] ELSE d

\* iter.next() a second time
SecondParam(params, d) == IF Len(params) >= 2 THEN params[2] ELSE d

\* one parameter of 'm', 0 restoring the colours of Cell::default().
SgrParam_CellDefault(g, p) ==
    IF p = 0
    THEN [g EXCEPT !.fg = <<255, 255, 255>>, !.bg = <<0, 0, 0>>]
    ELSE IF (p >= 30 /\ p <= 37) \/ (p >= 90 /\ p <= 97)
         THEN [g EXCEPT !.fg = get_ansi_color(g.theme, p)]
         ELSE g

\* one parameter of 'm'
SgrParam(g, p) ==
    IF p = 0
    THEN [g EXCEPT !.fg = default_fg(g.theme), !.bg = bg_color(g.theme)]
    ELSE IF (p >= 30 /\ p <= 37) \/ (p >= 90 /\ p <= 97)
         THEN [g EXCEPT !.fg = get_ansi_color(g.theme, p)]
         ELSE g

\* 'm' applying its first parameter only.
Sgr_FirstOnly(g, params) ==
    IF params = <<>> THEN g ELSE SgrParam(g, Head(params))

RECURSIVE Sgr(_, _)
\* for param in params { match param[0] ... }
Sgr(g, params) ==
    IF params = <<>> THEN g
    ELSE Sgr(SgrParam(g, Head(params)), Tail(params))

RECURSIVE EraseCells(_, _, _, _)
\* for x in lo..hi { self.cells[y][x] = Cell { c: ' ', fg, bg } }
EraseCells(g, y, lo, hi) ==
    IF lo >= hi \/ ~g.ok THEN g
    ELSE EraseCells(SetCell(g, y, lo, Cell(" ", g.fg, g.bg)), y, lo + 1, hi)

\* 'K' whose mode 1 stops before the cursor's column.
EraseInLine_Mode1Exclusive(g, params) ==
    LET mode == FirstParam(params, 0)
        g1 == EnsureRow(g, g.fg, g.bg)
    IN CASE mode = 0 -> EraseCells(g1, g1.cursor_y, g1.cursor_x, g1.width)
         [] mode = 1 -> EraseCells(g1, g1.cursor_y, 0, Min(g1.cursor_x, g1.width))
         [] mode = 2 -> EraseCells(g1, g1.cursor_y, 0, g1.width)
         [] OTHER -> g1

\* 'K' painting with the theme's colours instead of the current ones.
EraseInLine_Theme(g, params) ==
    LET mode == FirstParam(params, 0)
        t == [g EXCEPT !.fg = default_fg(g.theme), !.bg = bg_color(g.theme)]
        g1 == EnsureRow(t, t.fg, t.bg)
        g2 == CASE mode = 0 -> EraseCells(g1, g1.cursor_y, g1.cursor_x, g1.width)
                [] mode = 1 -> EraseCells(g1, g1.cursor_y, 0,
                                          Min(g1.cursor_x + 1, g1.width))
                [] mode = 2 -> EraseCells(g1, g1.cursor_y, 0, g1.width)
                [] OTHER -> g1
    IN [g2 EXCEPT !.fg = g.fg, !.bg = g.bg]

\* 'K'
EraseInLine(g, params) ==
    LET mode == FirstParam(params, 0)
        g1 == EnsureRow(g, g.fg, g.bg)
    IN CASE mode = 0 -> EraseCells(g1, g1.cursor_y, g1.cursor_x, g1.width)
         [] mode = 1 -> EraseCells(g1, g1.cursor_y, 0,
                                   Min(g1.cursor_x + 1, g1.width))
         [] mode = 2 -> EraseCells(g1, g1.cursor_y, 0, g1.width)
         [] OTHER -> g1

\* 'J' resetting the screen to one blank row instead of clearing in place.
EraseInDisplay_Reset(g, params) ==
    LET mode == FirstParam(params, 0) IN
    IF mode = 2
    THEN [g EXCEPT !.cells = <<BlankRow(g.width, g.fg, g.bg)>>,
                   !.cursor_x = 0,
                   !.cursor_y = 0]
    ELSE g

\* 'J'
EraseInDisplay(g, params) ==
    LET mode == FirstParam(params, 0) IN
    IF mode = 2
    THEN [g EXCEPT
            !.cells = [y \in 1 .. Len(g.cells) |->
                         [x \in 1 .. Len(g.cells[y]) |-> Cell(" ", g.fg, g.bg)]],
            !.cursor_x = 0,
            !.cursor_y = 0]
    ELSE g

\* 'A'
CursorUp(g, params) ==
    [g EXCEPT !.cursor_y = saturating_sub(g.cursor_y, FirstParam(params, 1))]

\* 'B'
CursorDown(g, params) ==
    EnsureRow([g EXCEPT !.cursor_y = g.cursor_y + FirstParam(params, 1)],
              g.fg, g.bg)

\* 'C' clamping to width instead of width - 1.
CursorRight_ClampWidth(g, params) ==
    [g EXCEPT !.cursor_x = Min(g.cursor_x + FirstParam(params, 1), g.width)]

\* 'C'
CursorRight(g, params) ==
    IF g.width >= 1
    THEN [g EXCEPT !.cursor_x =
             Min(g.cursor_x + FirstParam(params, 1), g.width - 1)]
    ELSE [g EXCEPT !.ok = FALSE]

\* 'D'
CursorLeft(g, params) ==
    [g EXCEPT !.cursor_x = saturating_sub(g.cursor_x, FirstParam(params, 1))]

\* 'H' | 'f' without the clamp of the column.
CursorPosition_NoClamp(g, params) ==
    EnsureRow([g EXCEPT !.cursor_y = saturating_sub(FirstParam(params, 1), 1),
                        !.cursor_x = saturating_sub(SecondParam(params, 1), 1)],
              g.fg, g.bg)

\* 'H' | 'f' without the growth loop.
CursorPosition_NoGrow(g, params) ==
    LET row == FirstParam(params, 1)
        col == SecondParam(params, 1)
        g1 == [g EXCEPT !.cursor_y = saturating_sub(row, 1),
                        !.cursor_x = saturating_sub(col, 1)]
    IN IF g1.cursor_x >= g1.width
       THEN IF g1.width >= 1 THEN [g1 EXCEPT !.cursor_x = g1.width - 1]
                             ELSE [g1 EXCEPT !.ok = FALSE]
       ELSE g1

\* 'H' | 'f'
CursorPosition(g, params) ==
    LET row == FirstParam(params, 1)
        col == SecondParam(params, 1)
        g1 == EnsureRow([g EXCEPT !.cursor_y = saturating_sub(row, 1),
                                  !.cursor_x = saturating_sub(col, 1)],
                        g.fg, g.bg)
    IN IF g1.cursor_x >= g1.width
       THEN IF g1.width >= 1 THEN [g1 EXCEPT !.cursor_x = g1.width - 1]
                             ELSE [g1 EXCEPT !.ok = FALSE]
       ELSE g1

\* csi_dispatch testing only the ignore flag, not the intermediates.
csi_dispatch_FlagOnly(g, params, intermediates, ignore, action) ==
    IF ignore THEN g
    ELSE CASE action = "m" -> Sgr(g, params)
           [] action = "K" -> EraseInLine(g, params)
           [] action = "J" -> EraseInDisplay(g, params)
           [] action = "A" -> CursorUp(g, params)
           [] action = "B" -> CursorDown(g, params)
           [] action = "C" -> CursorRight(g, params)
           [] action = "D" -> CursorLeft(g, params)
           [] action \in {"H", "f"} -> CursorPosition(g, params)
           [] OTHER -> g

csi_dispatch(g, params, intermediates, ignore, action) ==
    IF ignore \/ Len(intermediates) > 0 THEN g
    ELSE CASE action = "m" -> Sgr(g, params)
           [] action = "K" -> EraseInLine(g, params)
           [] action = "J" -> EraseInDisplay(g, params)
           [] action = "A" -> CursorUp(g, params)
           [] action = "B" -> CursorDown(g, params)
           [] action = "C" -> CursorRight(g, params)
           [] action = "D" -> CursorLeft(g, params)
           [] action \in {"H", "f"} -> CursorPosition(g, params)
           [] OTHER -> g

(* ------------------- render_text_to_png: end of stream ----------------- *)

\* TrimBlank comparing with the background of the active theme.
TrimBlank_ThemeBg(row) ==
    \A x \in 1 .. Len(row) : row[x].c = " " /\ row[x].bg = bg_color(theme)

\* grid.cells[grid.height - 1].iter().all(|c| c.c == ' ' && c.bg == Rgb([0,0,0]))
TrimBlank(row) == \A x \in 1 .. Len(row) : row[x].c = " " /\ row[x].bg = <<0, 0, 0>>

RECURSIVE TrimLoop(_)
\* while grid.height > 1 && <row height-1 blank> { height -= 1; cells.pop() }
TrimLoop(g) ==
    IF ~(g.height > 1) THEN g
    ELSE IF g.height - 1 >= Len(g.cells) THEN [g EXCEPT !.ok = FALSE]
    ELSE IF TrimBlank(g.cells[g.height])
         THEN TrimLoop([g EXCEPT !.height = g.height - 1,
                                 !.cells = SubSeq(g.cells, 1, Len(g.cells) - 1)])
         ELSE g

(* ------------------------------ the program ---------------------------- *)

\* CSI events explored: [params, intermediates, ignore, action].
CsiEvents ==
    [params : SgrParams, intermediates : {<<>>}, ignore : {FALSE}, action : {"m"}]
    \cup [params : ModeParams, intermediates : {<<>>}, ignore : {FALSE},
          action : {"K", "J"}]
    \cup [params : MoveParams, intermediates : {<<>>}, ignore : {FALSE},
          action : {"A", "B", "C", "D"}]
    \cup [params : PosParams, intermediates : {<<>>}, ignore : {FALSE},
          action : {"H"}]
    \cup [params : {<<>>, <<2, 12>>, <<5, 10>>}, intermediates : {<<>>},
          ignore : {FALSE}, action : {"f"}]
    \cup [params : {<<2>>}, intermediates : {<<>>, <<63>>}, ignore : {FALSE, TRUE},
          action : {"K", "h"}]
    \cup {e \in [params : {<<2>>, <<31>>}, intermediates : {<<>>, <<63>>},
                 ignore : {FALSE, TRUE}, action : {"m", "B", "H"}] :
             /\ e.ignore \/ Len(e.intermediates) > 0
             /\ e.params = <<31>> => e.action = "m"}

\* The grid built by render_text_to_png before the first byte is read.
InitGrid(ws) ==
    /\ theme \in Themes
    /\ width \in ws
    /\ cells = <<BlankRow(width, default_fg(theme), bg_color(theme))>>
    /\ height = 1
    /\ cursor_x = 0
    /\ cursor_y = 0
    /\ fg = default_fg(theme)
    /\ bg = bg_color(theme)
    /\ phase = "run"
    /\ nev = 0
    /\ last = "init"

Init == InitGrid(Widths)

\* The grid after an operation; a panic ends the program.
Becomes(g, op, ph) ==
    /\ cells' = g.cells
    /\ width' = g.width
    /\ height' = g.height
    /\ cursor_x' = g.cursor_x
    /\ cursor_y' = g.cursor_y
    /\ fg' = g.fg
    /\ bg' = g.bg
    /\ theme' = g.theme
    /\ phase' = IF g.ok THEN ph ELSE "panic"
    /\ last' = op

\* statemachine.advance(&mut grid, byte) reaching Perform::print
OnPrint(c) ==
    /\ phase = "run"
    /\ nev < MaxEvents
    /\ nev' = nev + 1
    /\ Becomes(print(Self, c), "print", "run")

\* ... reaching Perform::execute
Execute(byte) ==
    /\ phase = "run"
    /\ nev < MaxEvents
    /\ nev' = nev + 1
    /\ Becomes(execute(Self, byte), "execute", "run")

\* ... reaching Perform::csi_dispatch
CsiDispatch(params, intermediates, ignore, action) ==
    /\ phase = "run"
    /\ nev < MaxEvents
    /\ nev' = nev + 1
    /\ Becomes(csi_dispatch(Self, params, intermediates, ignore, action),
               IF ignore \/ Len(intermediates) > 0 THEN "ignored" ELSE action,
               "run")

\* The stream is exhausted: the trimming loop runs and the grid is final.
Trim ==
    /\ phase = "run"
    /\ nev' = nev
    /\ Becomes(TrimLoop(Self), "trim", "done")

Next ==
    \/ \E c \in PrintChars : OnPrint(c)
    \/ \E b \in ExecBytes : Execute(b)
    \/ \E e \in CsiEvents :
          CsiDispatch(e.params, e.intermediates, e.ignore, e.action)
    \/ Trim

Spec == Init /\ [][Next]_vars

\* A stream of printable, single-column characters only, then its end.
NextPrintable ==
    \/ \E c \in {ch \in PrintChars : CharWidth(ch) = 1} : OnPrint(c)
    \/ Trim

SpecPrintable == Init /\ [][NextPrintable]_vars

\* The stream "hello\r\n\x1b[31mworld\x1b[0m" as the tokenizer hands it over.
PrintEv(c) == [op |-> "print", c |-> c, byte |-> 0, params |-> <<>>]

ExecEv(b) == [op |-> "execute", c |-> "", byte |-> b, params |-> <<>>]

SgrEv(p) == [op |-> "m", c |-> "", byte |-> 0, params |-> p]

ScenarioEvents ==
    <<PrintEv("h"), PrintEv("e"), PrintEv("l"), PrintEv("l"), PrintEv("o"),
      ExecEv(13), ExecEv(10), SgrEv(<<31>>),
      PrintEv("w"), PrintEv("o"), PrintEv("r"), PrintEv("l"), PrintEv("d"),
      SgrEv(<<0>>)>>

\* statemachine.advance for one event of the stream
Advance(g, e) ==
    CASE e.op = "print" -> print(g, e.c)
      [] e.op = "execute" -> execute(g, e.byte)
      [] OTHER -> csi_dispatch(g, e.params, <<>>, FALSE, e.op)

\* Grids of width 10 and 11, both themes.
InitScenario == InitGrid({10, 11})

\* The next event of the scenario stream is handled.
ScenarioStep ==
    /\ phase = "run"
    /\ nev < Len(ScenarioEvents)
    /\ nev' = nev + 1
    /\ Becomes(Advance(Self, ScenarioEvents[nev + 1]),
               ScenarioEvents[nev + 1].op, "run")

\* The scenario stream, which may end after any prefix.
NextScenario ==
    \/ ScenarioStep
    \/ Trim

SpecScenario == InitScenario /\ [][NextScenario]_vars

(* ------------------------------ properties ----------------------------- *)

\* C1: in every state between events the number of stored rows equals the
\* height field.
C1_RowsEqualHeight == phase = "run" => Len(cells) = height

\* C2: no operation panics: every cell index used by print, Erase-in-Line
\* and Erase-in-Display is inside the grid and no usize subtraction
\* underflows.
C2_NeverFails == phase # "panic"

\* print has written into a row that only its defensive growth loop created.
C2_Witness ==
    /\ last = "print"
    /\ phase = "run"
    /\ Len(cells) > height
    /\ \E x \in 1 .. width : cells[Len(cells)][x].c = "a"

\* C3 as stated: after exactly `width` single-column prints from the initial
\* grid the cursor is at (0, 1) and the height is 2.
C3_Original ==
    nev = width => cursor_x = 0 /\ cursor_y = 1 /\ height = 2

\* C3 amended: after exactly `width` single-column prints from the initial
\* grid the cursor is at (0, 1) while the height is still 1 and one row is
\* stored; the row under the cursor is created by the next write.
C3_WrapAtWidth ==
    nev = width =>
        cursor_x = 0 /\ cursor_y = 1 /\ height = 1 /\ Len(cells) = 1

\* A grid of width 2 filled by two prints.
C3_Witness ==
    /\ width = 2
    /\ nev = 2
    /\ last = "print"
    /\ \A x \in 1 .. 2 : cells[1][x].c \in {" ", "a"}
    /\ cursor_y = 1

\* C4 as stated: after n <= width single-column prints (n = width included)
\* the height is 1 and cursor_y is 0.
C4_Original ==
    nev <= width => height = 1 /\ cursor_y = 0

\* C4 amended: after n <= width single-column prints the height is 1;
\* cursor_y is 0 for n < width and 1 for n = width.
C4_NoGrowthUpToWidth ==
    nev <= width =>
        height = 1 /\ cursor_y = (IF nev = width THEN 1 ELSE 0)

\* One character printed on a grid of width 2: the line is not full.
C4_Witness ==
    /\ width = 2
    /\ nev = 1
    /\ last = "print"
    /\ cursor_x = 1
    /\ cursor_y = 0

\* A row all of whose cells are a space on the active theme's background.
ThemeBlank(row) ==
    \A x \in 1 .. Len(row) : row[x].c = " " /\ row[x].bg = bg_color(theme)

\* C5: after trimming either one row remains or the last remaining row is
\* not fully blank (space on the theme background), for both themes.
C5_TrimmedToContent ==
    phase = "done" => Len(cells) = 1 \/ ~ThemeBlank(cells[Len(cells)])

\* C6: trimming leaves at least one row (height and stored rows) and removes
\* only rows from the bottom that hold no non-space character.
C6_TrimKeepsContent ==
    [][last' = "trim" =>
         /\ height' >= 1
         /\ Len(cells') >= 1
         /\ Len(cells') <= Len(cells)
         /\ \A y \in 1 .. Len(cells') : cells'[y] = cells[y]
         /\ \A y \in (Len(cells') + 1) .. Len(cells) :
               \A x \in 1 .. Len(cells[y]) : cells[y][x].c = " "]_vars

\* Trimming has run on a grid whose written row lies below a blank row at
\* index height - 1.
C6_Witness ==
    /\ phase = "done"
    /\ last = "trim"
    /\ Len(cells) = 3
    /\ height = 2
    /\ ThemeBlank(cells[2])
    /\ cells[3][1].c = "a"

\* C7: Cursor Position ('H' or 'f') with parameters (r, c), r >= 1 and
\* c >= 1, sets cursor_y = r - 1 and cursor_x = min(c - 1, width - 1) and
\* leaves at least r stored rows.
C7_CursorPosition ==
    [][last' \in {"H", "f"} =>
         \A p \in PosParams, a \in {"H", "f"} :
               (/\ Len(p) = 2
                /\ p[1] >= 1
                /\ p[2] >= 1
                /\ CsiDispatch(p, <<>>, FALSE, a))
               => /\ cursor_y' = p[1] - 1
                  /\ cursor_x' = Min(p[2] - 1, width - 1)
                  /\ Len(cells') >= p[1]]_vars

\* ESC[5;10H on the initial grid of width 10: five rows, cursor at (9, 4).
C7_Witness ==
    /\ last = "H"
    /\ nev = 1
    /\ width = 10
    /\ cursor_x = 9
    /\ cursor_y = 4
    /\ Len(cells) = 5

\* C8: Erase-in-Line mode 2 leaves every cell of the cursor's row a space
\* with the fg and bg that were current when the erase was issued, creating
\* the row when it does not exist.
C8_EraseLineAll ==
    [][last' = "K" =>
         \A p \in ModeParams :
               (/\ FirstParam(p, 0) = 2
                /\ CsiDispatch(p, <<>>, FALSE, "K"))
               => /\ Len(cells') > cursor_y
                  /\ cells'[cursor_y + 1] = BlankRow(width, fg, bg)
                  /\ fg' = fg
                  /\ bg' = bg]_vars

\* A row of width 10 erased with a red foreground from a cursor in column 1:
\* only mode 2 clears the columns on both sides of the cursor.
C8_Witness ==
    /\ last = "K"
    /\ width = 10
    /\ cursor_x = 1
    /\ cursor_y = 0
    /\ fg = <<205, 49, 49>>
    /\ fg # default_fg(theme)
    /\ cells[1] = BlankRow(width, fg, bg)

\* C9: Erase-in-Display mode 2 leaves every cell of every stored row a space
\* with the current fg and bg, puts the cursor at (0, 0) and changes neither
\* the number of rows nor the height.
C9_EraseDisplayAll ==
    [][last' = "J" =>
         \A p \in ModeParams :
               (/\ FirstParam(p, 0) = 2
                /\ CsiDispatch(p, <<>>, FALSE, "J"))
               => /\ \A y \in 1 .. Len(cells') : cells'[y] = BlankRow(width, fg, bg)
                  /\ cursor_x' = 0
                  /\ cursor_y' = 0
                  /\ Len(cells') = Len(cells)
                  /\ height' = height]_vars

\* Third event of a stream: a grid of several rows cleared with a red
\* foreground, cursor back at the origin.
C9_Witness ==
    /\ last = "J"
    /\ nev = 3
    /\ Len(cells) >= 2
    /\ fg = <<205, 49, 49>>
    /\ \A y \in 1 .. Len(cells) : cells[y] = BlankRow(width, fg, bg)
    /\ cursor_x = 0
    /\ cursor_y = 0

\* C10: after an SGR whose last parameter is 0 the current fg is the theme's
\* default foreground and the current bg is the theme's background.
C10_SgrReset ==
    [][last' = "m" =>
         \A p \in SgrParams :
               (/\ Len(p) >= 1
                /\ p[Len(p)] = 0
                /\ CsiDispatch(p, <<>>, FALSE, "m"))
               => /\ fg' = default_fg(theme)
                  /\ bg' = bg_color(theme)]_vars

\* A red character was printed and an SGR then restored the default colours.
C10_Witness ==
    /\ last = "m"
    /\ nev = 3
    /\ cells[1][1] = Cell("a", <<205, 49, 49>>, bg_color(theme))
    /\ fg = default_fg(theme)
    /\ bg = bg_color(theme)

\* C11: a csi_dispatch with the ignore flag set or with an intermediate byte
\* leaves rows, height, cursor, fg and bg unchanged, whatever its parameters
\* and final byte.
C11_IgnoredCsi ==
    [][last' = "ignored" =>
         \A e \in CsiEvents :
               (/\ e.ignore \/ Len(e.intermediates) > 0
                /\ CsiDispatch(e.params, e.intermediates, e.ignore, e.action))
               => UNCHANGED <<cells, height, cursor_x, cursor_y, fg, bg>>]_vars

\* A written row under the cursor survived a discarded sequence.
C11_Witness ==
    /\ last = "ignored"
    /\ width = 10
    /\ cursor_y = 0
    /\ cursor_x = 1
    /\ cells[1][1].c = "a"
    /\ Len(cells) = 1

\* C12: between events the cursor column lies in 0 .. width - 1.
C12_CursorXInRange ==
    phase = "run" => 0 <= cursor_x /\ cursor_x <= width - 1

\* Cursor Position asked for a column beyond the grid and was clamped.
C12_Witness ==
    /\ last \in {"H", "f"}
    /\ nev = 1
    /\ width = 2
    /\ cursor_x = width - 1
    /\ cursor_y = 1

\* C13: while events are processed every row has exactly `width` cells, and
\* an event keeps every stored row at its index and length and only appends
\* rows at the bottom.
C13_RowsOnlyAppended ==
    [][last' # "trim" =>
         /\ \A y \in 1 .. Len(cells) : Len(cells[y]) = width
         /\ \A y \in 1 .. Len(cells') : Len(cells'[y]) = width
         /\ Len(cells') >= Len(cells)
         /\ width' = width]_vars

\* Cursor Up after a growth, then an operation that ensures the cursor's row:
\* the rows below the cursor are still there.
C13_Witness ==
    /\ last = "K"
    /\ nev = 3
    /\ Len(cells) = 3
    /\ cursor_y = 0
    /\ \A y \in 1 .. 3 : Len(cells[y]) = width

\* The text of a row: its characters, left to right.
RowText(row) == [x \in 1 .. Len(row) |-> row[x].c]

\* C14: width 10, theme light, the stream hello CR LF SGR31 world SGR0 and
\* the trimming give height 2, row 0 "hello" and row 1 "world" in
\* (205,49,49), each followed by 5 theme-default spaces.
C14_HelloWorld ==
    (phase = "done" /\ nev = Len(ScenarioEvents) /\ width = 10 /\ theme = "Light")
    => /\ height = 2
       /\ Len(cells) = 2
       /\ RowText(cells[1]) = <<"h", "e", "l", "l", "o", " ", " ", " ", " ", " ">>
       /\ RowText(cells[2]) = <<"w", "o", "r", "l", "d", " ", " ", " ", " ", " ">>
       /\ \A x \in 1 .. 5 : cells[2][x].fg = <<205, 49, 49>>
       /\ \A x \in 1 .. 5 : cells[1][x].fg = <<0, 0, 0>>
       /\ \A x \in 1 .. 10 : \A y \in 1 .. 2 : cells[y][x].bg = <<255, 255, 255>>
       /\ \A x \in 6 .. 10 : \A y \in 1 .. 2 :
             cells[y][x] = Cell(" ", <<0, 0, 0>>, <<255, 255, 255>>)

\* The whole scenario stream was consumed on the light grid of width 10 and
\* trimmed.
C14_Witness ==
    /\ phase = "done"
    /\ last = "trim"
    /\ nev = 14
    /\ width = 10
    /\ theme = "Light"
    /\ cells[2][1].c = "w"

\* A cell as the theme initialises it.
ThemeCell == Cell(" ", default_fg(theme), bg_color(theme))

\* The rows a step has appended.
Appended == (Len(cells) + 1) .. Len(cells')

\* Column x (1-based) of the cursor's row lies in the range Erase-in-Line
\* clears for this mode.
InEraseRange(mode, x) ==
    CASE mode = 0 -> x - 1 >= cursor_x
      [] mode = 1 -> x - 1 <= cursor_x
      [] mode = 2 -> TRUE
      [] OTHER -> FALSE

\* C16: every cell the grid creates (the initial row, and rows appended by
\* print, Erase-in-Line, Cursor Down and Cursor Position) starts as a space
\* in the theme's default foreground on the theme's background, whatever the
\* current fg/bg; only the cells the same operation writes or erases differ.
C16_GrowthThemeDefault ==
    [][/\ nev = 0 => \A x \in 1 .. width : cells[1][x] = ThemeCell
       /\ last' \in {"B", "H", "f"} =>
             \A y \in Appended : \A x \in 1 .. width : cells'[y][x] = ThemeCell
       /\ last' = "print" =>
             Cardinality({yx \in Appended \X (1 .. width) :
                             cells'[yx[1]][yx[2]] # ThemeCell}) <= 1
       /\ \A p \in ModeParams :
             CsiDispatch(p, <<>>, FALSE, "K") =>
                \A y \in Appended : \A x \in 1 .. width :
                    \/ cells'[y][x] = ThemeCell
                    \/ y = cursor_y + 1 /\ InEraseRange(FirstParam(p, 0), x)]_vars

\* C17: print of a character of display width w (1 or 2, w <= width) writes
\* it at a column x with x + w <= width: at column 0 of row cursor_y + 1 when
\* cursor_x + w > width, otherwise at (cursor_x, cursor_y); afterwards
\* cursor_x has advanced by w, or is 0 on the next row when the advance
\* reached the width.
C17_PrintPlacement ==
    [][last' = "print" =>
         \A c \in PrintChars :
               (/\ CharWidth(c) \in 1 .. width
                /\ OnPrint(c))
               => LET w == CharWidth(c)
                      wrapped == cursor_x + w > width
                      ty == IF wrapped THEN cursor_y + 1 ELSE cursor_y
                      tx == IF wrapped THEN 0 ELSE cursor_x
                  IN /\ tx + w <= width
                     /\ Len(cells') > ty
                     /\ cells'[ty + 1][tx + 1] = Cell(c, fg, bg)
                     /\ IF tx + w >= width
                        THEN cursor_x' = 0 /\ cursor_y' = ty + 1
                        ELSE cursor_x' = tx + w /\ cursor_y' = ty]_vars

\* A double-width character printed with the cursor in the last column of a
\* grid of width 10: it went to column 0 of the next row.
C17_Witness ==
    /\ last = "print"
    /\ nev = 2
    /\ width = 10
    /\ Len(cells) = 2
    /\ cells[2][1].c = "wide"
    /\ cursor_x = 2
    /\ cursor_y = 1

\* C18: Erase-in-Line mode 0 clears exactly columns cursor_x .. width - 1 of
\* the cursor's row and mode 1 exactly columns 0 .. cursor_x; cleared cells
\* become a space with the current fg/bg; every other cell that existed, the
\* cursor and fg/bg are unchanged; a mode other than 0, 1, 2 changes no cell.
C18_EraseLineRange ==
    [][last' = "K" =>
         \A p \in ModeParams :
               CsiDispatch(p, <<>>, FALSE, "K")
               => LET mode == FirstParam(p, 0) IN
                  /\ Len(cells') > cursor_y
                  /\ \A x \in 1 .. width :
                        InEraseRange(mode, x) =>
                           cells'[cursor_y + 1][x] = Cell(" ", fg, bg)
                  /\ \A y \in 1 .. Len(cells) : \A x \in 1 .. width :
                        ~(y = cursor_y + 1 /\ InEraseRange(mode, x)) =>
                           cells'[y][x] = cells[y][x]
                  /\ UNCHANGED <<cursor_x, cursor_y, fg, bg>>]_vars

\* Mode 1 with a red foreground and the cursor in column 1 of a grid of
\* width 10: columns 0 and 1 are repainted, column 2 is as it was.
C18_Witness ==
    /\ last = "K"
    /\ nev = 3
    /\ width = 10
    /\ cursor_x = 1
    /\ cursor_y = 0
    /\ fg = <<205, 49, 49>>
    /\ cells[1][1] = Cell(" ", fg, bg)
    /\ cells[1][2] = Cell(" ", fg, bg)
    /\ cells[1][3] = ThemeCell
    /\ fg # default_fg(theme)

Max(a, b) == IF a >= b THEN a ELSE b

\* Every cell stored before the step is the same after it.
ExistingCellsKept ==
    /\ Len(cells') >= Len(cells)
    /\ \A y \in 1 .. Len(cells) : cells'[y] = cells[y]

\* C19: the relative cursor moves with parameter n (1 when absent): 'A' sets
\* cursor_y to max(cursor_y - n, 0); 'B' sets cursor_y to cursor_y + n and
\* leaves more than cursor_y rows; 'C' sets cursor_x to
\* min(cursor_x + n, width - 1); 'D' sets cursor_x to max(cursor_x - n, 0).
\* None changes an existing cell, fg, bg or the other coordinate.
C19_RelativeMoves ==
    [][last' \in {"A", "B", "C", "D"} =>
         \A p \in MoveParams :
               LET n == IF Len(p) = 0 THEN 1 ELSE p[1] IN
               /\ CsiDispatch(p, <<>>, FALSE, "A") =>
                     /\ cursor_y' = Max(cursor_y - n, 0)
                     /\ cursor_x' = cursor_x
                     /\ ExistingCellsKept
                     /\ UNCHANGED <<fg, bg>>
               /\ CsiDispatch(p, <<>>, FALSE, "B") =>
                     /\ cursor_y' = cursor_y + n
                     /\ Len(cells') > cursor_y'
                     /\ cursor_x' = cursor_x
                     /\ ExistingCellsKept
                     /\ UNCHANGED <<fg, bg>>
               /\ CsiDispatch(p, <<>>, FALSE, "C") =>
                     /\ cursor_x' = Min(cursor_x + n, width - 1)
                     /\ cursor_y' = cursor_y
                     /\ ExistingCellsKept
                     /\ UNCHANGED <<fg, bg>>
               /\ CsiDispatch(p, <<>>, FALSE, "D") =>
                     /\ cursor_x' = Max(cursor_x - n, 0)
                     /\ cursor_y' = cursor_y
                     /\ ExistingCellsKept
                     /\ UNCHANGED <<fg, bg>>]_vars

\* Cursor Up by one from row 2 of a grown grid, the column kept.
C19_Witness ==
    /\ last = "A"
    /\ nev = 3
    /\ width = 10
    /\ cursor_y = 1
    /\ cursor_x = 9
    /\ Len(cells) = 3

\* The SGR codes that select a foreground.
FgCodes == {0} \cup (30 .. 37) \cup (90 .. 97)

\* The positions of a parameter list that hold such a code.
FgPositions(p) == {i \in 1 .. Len(p) : p[i] \in FgCodes}

\* C20: after an SGR the fg is decided by the last parameter in
\* {0} \cup 30..37 \cup 90..97 (the theme's default foreground for 0, the
\* theme's ANSI colour otherwise) and is unchanged without such a parameter;
\* SGR changes neither the cursor, nor the height, nor any cell.  The codes
\* at the edges of the two ranges are tried in every state.
C20_SgrLastWins ==
    [][last' = "m" =>
         /\ \A p \in SgrParams :
               CsiDispatch(p, <<>>, FALSE, "m")
               => /\ IF FgPositions(p) = {}
                     THEN fg' = fg
                     ELSE LET i == CHOOSE j \in FgPositions(p) :
                                      \A k \in FgPositions(p) : k <= j
                          IN fg' = IF p[i] = 0 THEN default_fg(theme)
                                               ELSE get_ansi_color(theme, p[i])
                  /\ UNCHANGED <<cursor_x, cursor_y, height, cells>>
         /\ \A c \in {1, 29, 30, 37, 38, 89, 90, 97, 98} :
               Sgr(Self, <<c>>) =
                  IF c \in FgCodes
                  THEN [Self EXCEPT !.fg = get_ansi_color(theme, c)]
                  ELSE Self]_vars

\* Two parameters in one SGR on the light theme: the reset came first and red last.
C20_Witness ==
    /\ last = "m"
    /\ nev = 1
    /\ theme = "Light"
    /\ fg = <<205, 49, 49>>
    /\ cells = <<BlankRow(width, default_fg(theme), bg_color(theme))>>

\* C21: tab sets cursor_x to (cursor_x / 8 + 1) * 8, or to width - 1 when
\* that is >= width, and nothing else; line-feed sets cursor_x to 0 and adds
\* 1 to cursor_y without appending a row; carriage-return only sets cursor_x
\* to 0; backspace only decrements cursor_x, saturating at 0; any other
\* control byte changes nothing.
C21_ControlBytes ==
    [][last' = "execute" =>
         \A b \in ExecBytes :
            Execute(b) =>
               /\ UNCHANGED <<cells, height, fg, bg>>
               /\ b = 9 =>
                     LET stop == ((cursor_x \div 8) + 1) * 8 IN
                     /\ cursor_x' = IF stop >= width THEN width - 1 ELSE stop
                     /\ cursor_y' = cursor_y
               /\ b = 10 => cursor_x' = 0 /\ cursor_y' = cursor_y + 1
               /\ b = 13 => cursor_x' = 0 /\ cursor_y' = cursor_y
               /\ b = 8 =>
                     /\ cursor_x' = Max(cursor_x - 1, 0)
                     /\ cursor_y' = cursor_y
               /\ b \notin {8, 9, 10, 13} =>
                     UNCHANGED <<cursor_x, cursor_y>>]_vars

\* A tab from column 1 of a grid of width 10 stopped at column 8.
C21_Witness ==
    /\ last = "execute"
    /\ nev = 2
    /\ width = 10
    /\ cells[1][1].c = "a"
    /\ cursor_x = 8
    /\ cursor_y = 0

\* C22: print of a zero-display-width character leaves the whole grid state
\* unchanged (no row appended, no cell written, cursor, height, fg and bg
\* kept), also when cursor_y is at or beyond the height.
C22_ZeroWidthDiscarded ==
    [][last' = "print" =>
         \A c \in PrintChars :
            (CharWidth(c) = 0 /\ OnPrint(c))
            => UNCHANGED <<cells, height, cursor_x, cursor_y, fg, bg, width,
                           theme>>]_vars

\* The cursor is below the only row and in column 2: a print that wrote a
\* cell would have created the cursor's row.
C22_Witness ==
    /\ last = "print"
    /\ nev = 3
    /\ width = 10
    /\ cursor_x = 2
    /\ cursor_y = 1
    /\ cursor_y >= height
    /\ Len(cells) = 1

\* C23: at the end of any event sequence every row that holds a non-space
\* character has an index below the height field.
C23_ContentBelowHeight ==
    phase \in {"run", "done"} =>
        \A y \in 1 .. Len(cells) :
            (\E x \in 1 .. Len(cells[y]) : cells[y][x].c # " ") => y - 1 < height

\* C24: a print of a non-zero-width character whose target row (the cursor's
\* row, or the next one when the character wraps) is already stored appends
\* no row.
C24_PrintAppendsOnlyNeeded ==
    [][last' = "print" =>
         \A c \in PrintChars :
            (CharWidth(c) \in 1 .. width /\ OnPrint(c))
            => LET ty == IF cursor_x + CharWidth(c) > width
                         THEN cursor_y + 1 ELSE cursor_y
               IN ty < Len(cells) => Len(cells') = Len(cells)]_vars

\* C25: in every reachable state the current bg is the theme's background
\* and so is the background of every cell; in particular no cell and no
\* current bg is (0,0,0).
C25_BackgroundIsTheme ==
    /\ bg = bg_color(theme)
    /\ bg # <<0, 0, 0>>
    /\ \A y \in 1 .. Len(cells) : \A x \in 1 .. Len(cells[y]) :
          cells[y][x].bg = bg_color(theme)

\* On the dark theme: a colour change, a red character printed, and an
\* erase that had to create the cursor's row.
C25_Witness ==
    /\ last = "K"
    /\ nev = 3
    /\ theme = "Dark"
    /\ fg = <<205, 49, 49>>
    /\ Len(cells) = 2
    /\ cells[1][1] = Cell("a", fg, <<20, 20, 20>>)
    /\ cells[2][1] = Cell(" ", fg, <<20, 20, 20>>)

====
